---- MODULE Spec2Model ----
(***************************************************************************)
(* Model of scripts/generate_art.py: one run of the art generator.         *)
(* main() is a linear pipeline: check GEMINI_API_KEY, select an art style, *)
(* generate a concept with the text API, save the prompt to the gist, then *)
(* (unless SKIP_IMAGE_GENERATION) generate an image with a retry loop and  *)
(* write a metadata file, and exit.  The environment (configuration, the   *)
(* style file, the answers of the remote services) is nondeterministic.    *)
(***************************************************************************)
EXTENDS Integers, Sequences, FiniteSets, TLC

VARIABLES
    GEMINI_API_KEY,         \* line 30: "" when the variable is not set
    GIST_TOKEN,             \* line 33
    FISH_GIST_ID,           \* line 34
    SKIP_IMAGE_GENERATION,  \* line 35
    MAX_RETRIES,            \* line 38
    INITIAL_RETRY_DELAY,    \* line 39
    styles_file,            \* the content of art_styles.json on disk
    pc,                     \* position of the run in main()
    art_style,              \* main's art_style
    art_concept,            \* main's art_concept
    text_requests,          \* styles sent to the text API, in order
    gist,                   \* files written to the gist, in order
    gist_url,               \* main's gist_url
    image_path,             \* main's image_path
    attempt,                \* generate_image's local attempt
    last_exception,         \* generate_image's local last_exception
    response,               \* generate_image's local response
    trace,                  \* image API calls and sleeps, in order
    images,                 \* image files written to IMAGES_DIR
    metadata,               \* metadata files written to IMAGES_DIR
    exit_status,            \* status given to sys.exit, -1 while running
    diagnostic              \* the last ERROR line printed before an exit

vars == <<GEMINI_API_KEY, GIST_TOKEN, FISH_GIST_ID, SKIP_IMAGE_GENERATION,
          MAX_RETRIES, INITIAL_RETRY_DELAY, styles_file, pc, art_style,
          art_concept, text_requests, gist, gist_url, image_path, attempt,
          last_exception, response, trace, images, metadata, exit_status,
          diagnostic>>

config == <<GEMINI_API_KEY, GIST_TOKEN, FISH_GIST_ID, SKIP_IMAGE_GENERATION,
            MAX_RETRIES, INITIAL_RETRY_DELAY, styles_file>>

-----------------------------------------------------------------------------
(* Bounds of the environment.                                              *)

\* Largest value of MAX_RETRIES tried (the default is 3).
MaxRetriesBound == 3
\* Longest art_styles list in the style file.
MaxStyles == 2
\* Most parts in one of the two part lists of an image response.
MaxParts == 1

\* Values of INITIAL_RETRY_DELAY, in seconds: durations time.sleep accepts.
DelayValues == {0, 20}
\* MAX_RETRIES is any integer: zero and a negative value included.
RetryValues == -1 .. MaxRetriesBound
\* Style names of the style file; nothing keeps "" out of the list.
Styles == {"", "Cubism"}
\* Answers of the text API (response.text), as sequences of characters.
Texts == {<<>>, <<" ">>, <<"a">>, <<" ", "a", "\n">>}
\* UTC instants the clock may show when a file is named: date and time.
Timestamps == {[date |-> "20240101", time |-> "000000"],
               [date |-> "20240101", time |-> "000020"]}

None == "None"
Running == -1

RECURSIVE SeqsUpTo(_, _)
SeqsUpTo(S, n) ==
    IF n = 0 THEN {<<>>}
    ELSE LET shorter == SeqsUpTo(S, n - 1)
         IN  shorter \cup {Append(s, x) : s \in {t \in shorter : Len(t) = n - 1}, x \in S}

\* The JSON documents art_styles.json may hold, or that the file is missing.
\* kind "missing": no file; "no_key": a document without "art_styles" (or an
\* empty one); "styles": a document with the list art_styles.
StyleFiles ==
    {[kind |-> "missing", art_styles |-> <<>>], [kind |-> "no_key", art_styles |-> <<>>]}
    \cup {[kind |-> "styles", art_styles |-> l] : l \in SeqsUpTo(Styles, MaxStyles)}

-----------------------------------------------------------------------------
(* The image API.                                                          *)

\* Exceptions the image API call raises: type name and what str(e) holds.
ApiErrors ==
    { [type |-> "ResourceExhausted", has429 |-> FALSE, hasQuota |-> FALSE],
      [type |-> "TooManyRequests",   has429 |-> TRUE,  hasQuota |-> FALSE],
      [type |-> "Exception",         has429 |-> FALSE, hasQuota |-> TRUE],
      [type |-> "InternalServerError", has429 |-> FALSE, hasQuota |-> FALSE] }

\* ImageGenerationError("No valid image data found in response"), line 252.
NoImageDataError ==
    [type |-> "ImageGenerationError", has429 |-> FALSE, hasQuota |-> FALSE]

\* ImageGenerationError(f"Image generation failed: {last_exception}"), line 285.
ImageGenerationError == "ImageGenerationError"

NoException == [type |-> None, has429 |-> FALSE, hasQuota |-> FALSE]

\* A part of a response: whether it has inline_data, whether the data is
\* None, and the bytes of the data.
PartValues ==
    { [inline |-> FALSE, none |-> TRUE,  data |-> <<>>],
      [inline |-> TRUE,  none |-> TRUE,  data |-> <<>>],
      [inline |-> TRUE,  none |-> FALSE, data |-> <<>>],
      [inline |-> TRUE,  none |-> FALSE, data |-> <<137, 80>>] }

\* A response: response.parts and response._result.candidates[0].content.parts
\* (an absent attribute or no candidate is the empty list).
Responses ==
    [parts : SeqsUpTo(PartValues, MaxParts), candidate_parts : SeqsUpTo(PartValues, MaxParts)]

\* The variable response holds <<>> before any response, <<r>> after r.
NoResponse == <<>>

-----------------------------------------------------------------------------
(* Pure helpers of the script.                                             *)

IsWhitespace(c) == c \in {" ", "\n", "\t"}

\* str.strip(): drop leading and trailing whitespace, keep the inside.
RECURSIVE LStrip(_)
LStrip(s) == IF s # <<>> /\ IsWhitespace(Head(s)) THEN LStrip(Tail(s)) ELSE s

RECURSIVE RStrip(_)
RStrip(s) ==
    IF s # <<>> /\ IsWhitespace(s[Len(s)]) THEN RStrip(SubSeq(s, 1, Len(s) - 1)) ELSE s

Strip(s) == RStrip(LStrip(s))

\* A choice that falls back on a built-in style.
RandomChoiceWithDefault(l) == {l[i] : i \in DOMAIN l} \cup {"Impressionism"}

\* random.choice(art_styles): the values it may return.
RandomChoice(l) == {l[i] : i \in DOMAIN l}

\* strftime("%Y%m%d_%H%M%S") and strftime("%Y%m%d%H%M%S").
GistStamp(ts) == ts.date \o "_" \o ts.time
ImageStamp(ts) == ts.date \o ts.time

\* The gist file of a prompt: its name and the fields of its markdown content.
GistFile(ts, style, concept) ==
    [filename |-> "art_prompt_" \o GistStamp(ts) \o ".md",
     title |-> style, art_style |-> style, art_concept |-> concept]

GistUrl(login, filename) ==
    "https://gist.github.com/" \o login \o "/" \o FISH_GIST_ID \o "#" \o filename

\* Paths under IMAGES_DIR: Path.name and Path.stem.
NoPath == [stem |-> "", suffix |-> ""]
ImagePath(ts) == [stem |-> ImageStamp(ts), suffix |-> ".png"]
PathName(p) == p.stem \o p.suffix
PathStem(p) == p.stem

\* A loop that runs one index too far.
InRangeInclusive(n) == n >= 0 /\ n <= MAX_RETRIES

\* range(MAX_RETRIES): whether the loop runs an iteration with this index.
InRange(n) == n >= 0 /\ n < MAX_RETRIES

\* is_rate_limit, line 260.
IsRateLimit(e) == e.has429 \/ e.type = "ResourceExhausted" \/ e.hasQuota

\* A retry condition that forgets the attempt limit.
ShouldRetryAlways(e, n) == IsRateLimit(e)

\* The condition of line 262.
ShouldRetry(e, n) == IsRateLimit(e) /\ n < MAX_RETRIES - 1

\* A backoff that starts one doubling too late.
DelayShifted(n) == INITIAL_RETRY_DELAY * (2 ^ (n + 1))

\* delay, line 264.
Delay(n) == INITIAL_RETRY_DELAY * (2 ^ n)

\* A validation that only tests for None.
ValidImageDataNotNone(part) == ~part.none

\* "image_data and len(image_data) > 0", lines 225 and 243.
ValidImageData(part) == ~part.none /\ Len(part.data) > 0

\* The loops of lines 221-231 and 239-249: the data of the first part that
\* has inline_data with valid data as <<data>>, <<>> when there is none.
RECURSIVE FirstImage(_)
FirstImage(parts) ==
    IF parts = <<>> THEN <<>>
    ELSE IF Head(parts).inline /\ ValidImageData(Head(parts)) THEN <<Head(parts).data>>
    ELSE FirstImage(Tail(parts))

\* Lines 220-249: response.parts first, then the candidate's parts.
ExtractImageData(r) ==
    IF FirstImage(r.parts) # <<>> THEN FirstImage(r.parts)
    ELSE FirstImage(r.candidate_parts)

\* A handler for another exception type.
MainCatchesNothing(exc) == FALSE

\* "except ImageGenerationError", line 353.
MainCatches(exc) == exc = ImageGenerationError

\* A step 4 that ignores the configuration flag.
SkipImageNever == FALSE

\* The condition of line 342.
SkipImage == SKIP_IMAGE_GENERATION

\* Metadata that names the image by its stem, without the suffix.
MetadataFileByStem(style, concept, url, path) ==
    [filename |-> PathStem(path) \o "_metadata.json",
     art_style |-> style, art_concept |-> concept, gist_url |-> url,
     image_file |-> PathStem(path)]

\* create_metadata_file's metadata and file name.
MetadataFile(style, concept, url, path) ==
    [filename |-> PathStem(path) \o "_metadata.json",
     art_style |-> style, art_concept |-> concept, gist_url |-> url,
     image_file |-> PathName(path)]

-----------------------------------------------------------------------------
(* The run.                                                                *)

Init ==
    /\ GEMINI_API_KEY \in {"", "key"}
    /\ GIST_TOKEN \in {"", "token"}
    /\ FISH_GIST_ID \in {"", "f15h"}
    /\ SKIP_IMAGE_GENERATION \in BOOLEAN
    /\ MAX_RETRIES \in RetryValues
    /\ INITIAL_RETRY_DELAY \in DelayValues
    /\ styles_file \in StyleFiles
    /\ pc = "start"
    /\ art_style = None
    /\ art_concept = <<>>
    /\ text_requests = <<>>
    /\ gist = <<>>
    /\ gist_url = ""
    /\ image_path = NoPath
    /\ attempt = 0
    /\ last_exception = NoException
    /\ response = NoResponse
    /\ trace = <<>>
    /\ images = {}
    /\ metadata = {}
    /\ exit_status = Running
    /\ diagnostic = ""

\* An exit that reports success whatever the code.
ExitZero(code, msg) ==
    /\ pc' = "done"
    /\ exit_status' = 0
    /\ diagnostic' = msg

\* print(ERROR ...) followed by sys.exit(code).
Exit(code, msg) ==
    /\ pc' = "done"
    /\ exit_status' = code
    /\ diagnostic' = msg

\* main, lines 322-325.
CheckApiKey ==
    /\ pc = "start"
    /\ IF GEMINI_API_KEY = ""
       THEN Exit(1, "GEMINI_API_KEY environment variable is not set")
       ELSE pc' = "select_style" /\ UNCHANGED <<exit_status, diagnostic>>
    /\ UNCHANGED <<config, art_style, art_concept, text_requests, gist, gist_url,
                   image_path, attempt, last_exception, response, trace, images,
                   metadata>>

\* select_random_art_style with load_json, lines 48-72, called at line 328.
SelectRandomArtStyle ==
    /\ pc = "select_style"
    /\ \/ /\ styles_file.kind = "missing"
          /\ Exit(1, "File not found")
          /\ UNCHANGED art_style
       \/ /\ styles_file.kind = "no_key"
          /\ Exit(1, "Could not load art styles from art_styles.json")
          /\ UNCHANGED art_style
       \/ /\ styles_file.kind = "styles"
          /\ styles_file.art_styles = <<>>
          /\ Exit(1, "Art styles list is empty")
          /\ UNCHANGED art_style
       \/ /\ styles_file.kind = "styles"
          /\ styles_file.art_styles # <<>>
          /\ \E selected \in RandomChoice(styles_file.art_styles) :
                art_style' = selected
          /\ pc' = "concept"
          /\ UNCHANGED <<exit_status, diagnostic>>
    /\ UNCHANGED <<config, art_concept, text_requests, gist, gist_url, image_path,
                   attempt, last_exception, response, trace, images, metadata>>

\* generate_art_concept, lines 75-108, called at line 332.
GenerateArtConcept ==
    /\ pc = "concept"
    /\ text_requests' = Append(text_requests, art_style)
    /\ \/ /\ Exit(1, "Failed to generate art concept")
          /\ UNCHANGED art_concept
       \/ /\ \E text \in Texts : art_concept' = Strip(text)
          /\ pc' = "save_gist"
          /\ UNCHANGED <<exit_status, diagnostic>>
    /\ UNCHANGED <<config, art_style, gist, gist_url, image_path, attempt,
                   last_exception, response, trace, images, metadata>>

\* save_prompt_to_gist, lines 111-175, called at line 337.  The requests it
\* makes: get_gist (line 137), gist.edit (line 167), and the user's login,
\* which line 169 reads after the edit.
SavePromptToGist ==
    /\ pc = "save_gist"
    /\ \/ /\ GIST_TOKEN = ""
          /\ Exit(1, "GIST_TOKEN environment variable is not set")
          /\ UNCHANGED <<gist, gist_url>>
       \/ /\ GIST_TOKEN # "" /\ FISH_GIST_ID = ""
          /\ Exit(1, "FISH_GIST_ID environment variable is not set")
          /\ UNCHANGED <<gist, gist_url>>
       \/ /\ GIST_TOKEN # "" /\ FISH_GIST_ID # ""
          /\ \/ /\ Exit(1, "Could not access gist")
                /\ UNCHANGED <<gist, gist_url>>
             \/ /\ Exit(1, "Failed to save prompt to gist: edit")
                /\ UNCHANGED <<gist, gist_url>>
             \/ \E ts \in Timestamps :
                   LET file == GistFile(ts, art_style, art_concept) IN
                   /\ gist' = Append(gist, file)
                   /\ \/ /\ Exit(1, "Failed to save prompt to gist: login")
                         /\ UNCHANGED gist_url
                      \/ /\ gist_url' = GistUrl("fish", file.filename)
                         /\ pc' = "image_step"
                         /\ UNCHANGED <<exit_status, diagnostic>>
    /\ UNCHANGED <<config, art_style, art_concept, text_requests, image_path,
                   attempt, last_exception, response, trace, images, metadata>>

\* main, lines 340-346: the image step is skipped or generate_image is
\* entered (lines 193-203).
SkipImageGeneration ==
    /\ pc = "image_step"
    /\ SkipImage
    /\ pc' = "finish"
    /\ image_path' = NoPath
    /\ UNCHANGED <<config, art_style, art_concept, text_requests, gist, gist_url,
                   attempt, last_exception, response, trace, images, metadata,
                   exit_status, diagnostic>>

EnterGenerateImage ==
    /\ pc = "image_step"
    /\ ~SkipImage
    /\ pc' = "image_loop"
    /\ image_path' = NoPath
    /\ attempt' = 0
    /\ last_exception' = NoException
    /\ UNCHANGED <<config, art_style, art_concept, text_requests, gist, gist_url,
                   response, trace, images, metadata, exit_status, diagnostic>>

\* generate_image returns or raises: its local variables are gone.
LocalsDropped ==
    /\ attempt' = 0
    /\ last_exception' = NoException
    /\ response' = NoResponse

\* The except clause of lines 254-270 for the exception e of this attempt:
\* sleep and go on with the next attempt, or leave the loop.
HandleException(e, called) ==
    /\ last_exception' = e
    /\ IF ShouldRetry(e, attempt)
       THEN /\ trace' = called \o <<[kind |-> "sleep", delay |-> Delay(attempt)]>>
            /\ attempt' = attempt + 1
            /\ pc' = "image_loop"
       ELSE /\ trace' = called
            /\ attempt' = attempt
            /\ pc' = "image_raise"

\* One iteration of the loop of generate_image, lines 205-270.
ImageAttempt ==
    /\ pc = "image_loop"
    /\ InRange(attempt)
    /\ LET called == Append(trace, [kind |-> "call", attempt |-> attempt]) IN
       \/ \E e \in ApiErrors :
             /\ HandleException(e, called)
             /\ UNCHANGED <<response, images, image_path>>
       \/ \E r \in Responses, ts \in Timestamps :
             IF ExtractImageData(r) # <<>>
             THEN /\ images' = images \cup
                         {[filename |-> PathName(ImagePath(ts)),
                           data |-> ExtractImageData(r)[1]]}
                  /\ image_path' = ImagePath(ts)
                  /\ trace' = called
                  /\ pc' = "metadata"
                  /\ LocalsDropped
             ELSE /\ response' = <<r>>
                  /\ HandleException(NoImageDataError, called)
                  /\ UNCHANGED <<images, image_path>>
    /\ UNCHANGED <<config, art_style, art_concept, text_requests, gist, gist_url,
                   metadata, exit_status, diagnostic>>

\* The loop of line 205 ends because range(MAX_RETRIES) has no further index.
LoopExhausted ==
    /\ pc = "image_loop"
    /\ ~InRange(attempt)
    /\ pc' = "image_raise"
    /\ UNCHANGED <<config, art_style, art_concept, text_requests, gist, gist_url,
                   image_path, attempt, last_exception, response, trace, images,
                   metadata, exit_status, diagnostic>>

\* Lines 272-285 raise ImageGenerationError; main catches it at lines 353-357.
\* An exception main does not catch ends the process with status 1.
RaiseImageGenerationError ==
    /\ pc = "image_raise"
    /\ IF MainCatches(ImageGenerationError)
       THEN /\ image_path' = NoPath
            /\ pc' = "finish"
            /\ diagnostic' = "Image generation failed"
            /\ UNCHANGED exit_status
       ELSE /\ Exit(1, "Traceback")
            /\ UNCHANGED image_path
    /\ LocalsDropped
    /\ UNCHANGED <<config, art_style, art_concept, text_requests, gist, gist_url,
                   trace, images, metadata>>

\* create_metadata_file, lines 288-313, called at line 352.
CreateMetadataFile ==
    /\ pc = "metadata"
    /\ metadata' = metadata \cup
            {MetadataFile(art_style, art_concept, gist_url, image_path)}
    /\ pc' = "finish"
    /\ UNCHANGED <<config, art_style, art_concept, text_requests, gist, gist_url,
                   image_path, attempt, last_exception, response, trace, images,
                   exit_status, diagnostic>>

\* main, lines 359-371.
Finish ==
    /\ pc = "finish"
    /\ pc' = "done"
    /\ exit_status' = 0
    /\ UNCHANGED <<config, art_style, art_concept, text_requests, gist, gist_url,
                   image_path, attempt, last_exception, response, trace, images,
                   metadata, diagnostic>>

Next ==
    \/ CheckApiKey
    \/ SelectRandomArtStyle
    \/ GenerateArtConcept
    \/ SavePromptToGist
    \/ SkipImageGeneration
    \/ EnterGenerateImage
    \/ ImageAttempt
    \/ LoopExhausted
    \/ RaiseImageGenerationError
    \/ CreateMetadataFile
    \/ Finish

Spec == Init /\ [][Next]_vars

TypeOK ==
    /\ pc \in {"start", "select_style", "concept", "save_gist", "image_step",
               "image_loop", "image_raise", "metadata", "finish", "done"}
    /\ exit_status \in {Running, 0, 1}
    /\ attempt \in 0 .. MaxRetriesBound + 1

-----------------------------------------------------------------------------
(* Properties.                                                             *)

IsCall(ev) == ev.kind = "call"
IsSleep(ev) == ev.kind = "sleep"
\* The number of calls made to the image API.
ApiCalls == Len(SelectSeq(trace, IsCall))
\* The delays slept, in order.
Sleeps == SelectSeq(trace, IsSleep)
\* save_prompt_to_gist has returned and the image step is not skipped.
ImageStepReached == gist_url # "" /\ ~SKIP_IMAGE_GENERATION
\* No prior step has left a trace of the image step.
NoImageWork == trace = <<>> /\ images = {} /\ metadata = {}
Max(a, b) == IF a >= b THEN a ELSE b

C2_CallsAtMostMaxRetries ==
    pc \in {"image_loop", "image_raise", "metadata"} => ApiCalls <= MAX_RETRIES

\* C2 (amended): the number of image API calls is at most MAX_RETRIES when
\* MAX_RETRIES is positive, and zero when it is zero or negative.
C2_CallsAtMostMaxRetriesOrZero ==
    ApiCalls <= Max(MAX_RETRIES, 0)

\* C2 witness: every permitted attempt was made.
C2_Witness ==
    /\ pc = "image_raise"
    /\ MAX_RETRIES >= 2
    /\ ApiCalls = MAX_RETRIES

\* C3: the calls are numbered 0, 1, 2, ...; calls and sleeps alternate, one
\* sleep between two consecutive calls; the first sleep is
\* INITIAL_RETRY_DELAY and each later one is twice the one before.
C3_ExponentialDelays ==
    /\ \A i \in DOMAIN trace :
          /\ (i % 2 = 1) => (IsCall(trace[i]) /\ trace[i].attempt = (i - 1) \div 2)
          /\ (i % 2 = 0) => IsSleep(trace[i])
    /\ \A k \in DOMAIN Sleeps :
          Sleeps[k].delay = IF k = 1 THEN INITIAL_RETRY_DELAY
                            ELSE 2 * Sleeps[k - 1].delay

\* C3 witness: two sleeps were made with a delay that is not zero.
C3_Witness ==
    /\ Len(Sleeps) = 2
    /\ Sleeps[1].delay = 20
    /\ Sleeps[2].delay = 40
    /\ ApiCalls = 3

\* The parts of a response, of both lists.
PartsOf(r) ==
    {r.parts[i] : i \in DOMAIN r.parts}
        \cup {r.candidate_parts[i] : i \in DOMAIN r.candidate_parts}
\* The bytes of a part are None or of length zero.
EmptyBytes(part) == part.none \/ Len(part.data) = 0

\* C4: every image file written holds bytes; and after a response whose
\* image bytes are all empty no image file exists, no path is returned and
\* generate_image is on its way to raise ImageGenerationError.
C4_EmptyBytesNotWritten ==
    /\ \A f \in images : Len(f.data) > 0
    /\ (response # <<>> /\ \A part \in PartsOf(response[1]) : EmptyBytes(part)) =>
          /\ images = {}
          /\ image_path = NoPath
          /\ last_exception = NoImageDataError
          /\ pc = "image_raise"

\* C4 witness: a response with an inline part of zero length was received.
C4_Witness ==
    /\ response # <<>>
    /\ \E part \in PartsOf(response[1]) : part.inline /\ ~part.none /\ part.data = <<>>
    /\ \A part \in PartsOf(response[1]) : EmptyBytes(part)
    /\ pc = "image_raise"

\* C5: a run with image generation disabled whose gist save succeeded ends
\* with status 0, exactly one gist record, no image API call and no image
\* or metadata file.
C5_SkipRunSucceeds ==
    (SKIP_IMAGE_GENERATION /\ gist_url # "") =>
        /\ Len(gist) = 1
        /\ NoImageWork
        /\ pc \in {"image_step", "finish", "done"}
        /\ pc = "done" => exit_status = 0

\* C5 witness: such a run has exited.
C5_Witness ==
    /\ SKIP_IMAGE_GENERATION
    /\ pc = "done"
    /\ exit_status = 0
    /\ Len(gist) = 1

\* The style file gives no style: it is missing, has no list or an empty one.
NoStyle ==
    \/ styles_file.kind \in {"missing", "no_key"}
    \/ styles_file.art_styles = <<>>

\* C6: a run that has ended on a failure before the image step has status 1
\* and performed no step after the failing one.
C6_EarlyFailureStops ==
    pc = "done" =>
        /\ GEMINI_API_KEY = "" =>
              exit_status = 1 /\ text_requests = <<>> /\ gist = <<>> /\ NoImageWork
        /\ (GEMINI_API_KEY # "" /\ NoStyle) =>
              exit_status = 1 /\ text_requests = <<>> /\ gist = <<>> /\ NoImageWork
        /\ diagnostic = "Failed to generate art concept" =>
              exit_status = 1 /\ Len(text_requests) = 1 /\ gist = <<>> /\ NoImageWork
        /\ (GEMINI_API_KEY # "" /\ ~NoStyle /\ (GIST_TOKEN = "" \/ FISH_GIST_ID = "")) =>
              exit_status = 1 /\ gist = <<>> /\ NoImageWork
        /\ diagnostic \in {"Could not access gist", "Failed to save prompt to gist: edit"} =>
              exit_status = 1 /\ gist = <<>> /\ NoImageWork
        /\ diagnostic = "Failed to save prompt to gist: login" =>
              exit_status = 1 /\ Len(gist) = 1 /\ NoImageWork
        /\ exit_status = 1 => NoImageWork

\* C6 witness: the gist could not be accessed after the concept was made.
C6_Witness ==
    /\ pc = "done"
    /\ exit_status = 1
    /\ diagnostic = "Could not access gist"
    /\ Len(text_requests) = 1

\* C7: every record persisted to the gist has a style and a concept text
\* that are not empty.
C7_RecordsNonEmpty ==
    \A i \in DOMAIN gist : gist[i].art_style # "" /\ gist[i].art_concept # <<>>

\* C8: the selected style is an element of the list of the style file, and
\* the concept request, the gist record and the metadata carry that style.
C8_StyleFromList ==
    art_style # None =>
        /\ \E i \in DOMAIN styles_file.art_styles : styles_file.art_styles[i] = art_style
        /\ \A i \in DOMAIN text_requests : text_requests[i] = art_style
        /\ \A i \in DOMAIN gist : gist[i].art_style = art_style /\ gist[i].title = art_style
        /\ \A m \in metadata : m.art_style = art_style

\* C8 witness: the second of two different styles was selected and reached
\* the request, the gist and the metadata.
C8_Witness ==
    /\ Len(styles_file.art_styles) = 2
    /\ styles_file.art_styles[1] # styles_file.art_styles[2]
    /\ art_style = styles_file.art_styles[2]
    /\ Len(text_requests) = 1
    /\ Len(gist) = 1
    /\ metadata # {}

\* The exception is one the script does not classify as a rate limit.
NotRateLimit(e) == e.type \in {"InternalServerError", "ImageGenerationError"}

\* C9: a sleep is made only after a rate-limit error and only when a further
\* attempt is permitted; after any other error, or a rate-limit error on
\* attempt MAX_RETRIES - 1, the loop is left with the call as the last event,
\* and the run goes on to raise ImageGenerationError.
C9_OnlyRateLimitRetried ==
    /\ (trace # <<>> /\ IsSleep(trace[Len(trace)])) =>
          /\ pc = "image_loop"
          /\ ~NotRateLimit(last_exception)
          /\ last_exception # NoException
          /\ attempt <= MAX_RETRIES - 1
    /\ (pc = "image_loop" /\ trace # <<>>) => IsSleep(trace[Len(trace)])
    /\ NotRateLimit(last_exception) =>
          /\ pc = "image_raise"
          /\ IsCall(trace[Len(trace)])
    /\ (trace # <<>> /\ images = {} /\ pc \in {"finish", "done"}) =>
          /\ diagnostic = "Image generation failed"
          /\ image_path = NoPath
          /\ IsCall(trace[Len(trace)])
    /\ (last_exception # NoException /\ pc = "image_raise") =>
          (NotRateLimit(last_exception) \/ attempt = MAX_RETRIES - 1)

\* C9 witness: after one retry another error ended the loop.
C9_Witness ==
    /\ pc = "image_raise"
    /\ last_exception.type = "InternalServerError"
    /\ attempt = 1
    /\ Len(trace) = 3

\* C10: at most one image file and one metadata file; a metadata file names
\* an image file of the run; no metadata file without an image.
C10_MetadataFollowsImage ==
    /\ Cardinality(images) <= 1
    /\ Cardinality(metadata) <= 1
    /\ \A m \in metadata :
          /\ \E f \in images : f.filename = m.image_file
          /\ m.image_file = PathName(image_path)
    /\ (SKIP_IMAGE_GENERATION \/ images = {}) => metadata = {}
    /\ (pc \in {"finish", "done"} /\ diagnostic = "Image generation failed") =>
          metadata = {}

\* C10 witness: an image and its metadata file were written.
C10_Witness ==
    /\ pc = "done"
    /\ Cardinality(images) = 1
    /\ Cardinality(metadata) = 1

====
